---- MODULE Spec2Model ----
(***************************************************************************)
(* PlayRegistry (soccer/gameplay2/play_registry.py): a tree of Category    *)
(* and Node (leaf) objects, with insert / delete by module path, iteration *)
(* and the QAbstractItemModel toggle (setData).                            *)
(*                                                                         *)
(* Objects live in an arena: nodes[i] is the object with identity i, and   *)
(* nodes[1] is the root Category built by the constructor.  References     *)
(* between objects (parent, children) are identities.  Python exceptions   *)
(* are modelled by an exc field whose value is the name of the exception   *)
(* class, "none" when the call returns normally.                           *)
(*                                                                         *)
(*   nodes  the arena of Category / Node objects                           *)
(*   last   the method call made last, with its arguments and its outcome  *)
(*   pre    the arena as it was when that call was made                    *)
(***************************************************************************)
EXTENDS Integers, Sequences, FiniteSets, TLC

VARIABLES nodes, last, pre

vars == <<nodes, last, pre>>

(* ---------------------------- bounds ----------------------------------- *)

\* longest module path handed to insert / delete
MaxPathLen == 2

\* insert is called only while the arena holds fewer objects than this
\* (root included), so the arena stays finite
MaxNodes == 4

(* ---------------------------- inputs ----------------------------------- *)

\* folder names a module path is built from; "Kick" is also a class name
Segments == {"solo", "Kick"}

\* play classes: the class object's identity, its __name__, and the name of
\* the module (file) that defines it, which the loader puts last in the
\* module path ("the last one is just an underscored, lowercased version of
\* the play's name")
PlayClasses ==
    { [id |-> 1, name |-> "Kick", module |-> "kick"],
      [id |-> 2, name |-> "Pass", module |-> "pass"] }

\* the play argument recorded for a call that takes none
NoPlay == [id |-> 0, name |-> "", module |-> ""]

\* the sequences of n folder names
RECURSIVE PathsOfLen(_)
PathsOfLen(n) ==
    IF n = 0 THEN {<<>>}
    ELSE {Append(p, s) : p \in PathsOfLen(n - 1), s \in Segments}

\* the folder part of a module path: module_path[:-1]
FolderPaths == UNION {PathsOfLen(n) : n \in 0..(MaxPathLen - 1)}

\* the module path of a play class found in that folder
ModulePath(folders, play_class) == Append(folders, play_class.module)

(* ---------------------------- objects ---------------------------------- *)

\* Python's None as an object reference
None == 0

\* a Node's _parent attribute before appendChild assigns it
Unset == -1

Root == 1

\* PlayRegistry.Category.__init__
NewCategory(parent, name) ==
    [kind |-> "Category", name |-> name, parent |-> parent, children |-> <<>>]

\* PlayRegistry.Node.__init__
NewNode(module_name, play_class) ==
    [kind |-> "Node", module_name |-> module_name, play_class |-> play_class,
     enabled |-> TRUE, parent |-> Unset]

\* play_class.__name__
ClassName(play_class) == play_class.name

\* the name property: Category.name is the stored segment, Node.name is the
\* __name__ of the play class
NameOf(ns, n) ==
    IF ns[n].kind = "Category" THEN ns[n].name
    ELSE ClassName(ns[n].play_class)

IsCategory(ns, n) == n # None /\ ns[n].kind = "Category"

IsNode(ns, n) == n # None /\ ns[n].kind = "Node"

\* appendChild with the assignment turned round: self.parent = child
AppendChildSetsOwnParent(ns, c, child) ==
    [ns EXCEPT ![c].children = Append(@, child), ![c].parent = child]

\* appendChild without the assignment of child.parent
AppendChildNoBackRef(ns, c, child) ==
    [ns EXCEPT ![c].children = Append(@, child)]

\* Category.appendChild: append to the child list, then set the back reference
AppendChild(ns, c, child) ==
    [ns EXCEPT ![c].children = Append(@, child), ![child].parent = c]

\* Category.__getitem__: the first child with that name, None when there is none
GetItem(ns, c, name) ==
    LET ch == ns[c].children
        hits == {i \in 1..Len(ch) : NameOf(ns, ch[i]) = name}
    IN  IF hits = {} THEN None
        ELSE ch[CHOOSE i \in hits : \A j \in hits : i <= j]

\* `module == child` for a str and a Category / Node object: neither class
\* defines __eq__, so the comparison falls back to identity and is False
StrEqualsObject(module, ns, child) == FALSE

\* `module in category.children`: list membership by ==
InChildren(module, ns, c) ==
    \E i \in 1..Len(ns[c].children) : StrEqualsObject(module, ns, ns[c].children[i])

(* ---------------------------- insert ----------------------------------- *)

\* the for loop of insert over module_path[:-1], starting at category
RECURSIVE InsertWalk(_, _, _)
InsertWalk(ns, category, modules) ==
    IF modules = <<>> THEN [nodes |-> ns, category |-> category, exc |-> "none"]
    ELSE IF ~IsCategory(ns, category)
    THEN \* a Node has no attribute 'children'
         [nodes |-> ns, category |-> category, exc |-> "AttributeError"]
    ELSE LET module == Head(modules)
             sub == Len(ns) + 1
             ns1 == IF ~InChildren(module, ns, category)
                    THEN AppendChild(Append(ns, NewCategory(category, module)),
                                     category, sub)
                    ELSE ns
         IN  InsertWalk(ns1, GetItem(ns1, category, module), Tail(modules))

\* module_path[:-1]
AllButLast(p) == SubSeq(p, 1, Len(p) - 1)

\* PlayRegistry.insert
InsertOp(ns, module_path, play_class) ==
    LET w == InsertWalk(ns, Root, AllButLast(module_path))
        leaf == Len(w.nodes) + 1
    IN  IF w.exc # "none" THEN [nodes |-> w.nodes, exc |-> w.exc]
        ELSE IF ~IsCategory(w.nodes, w.category)
        THEN \* a Node has no attribute 'appendChild'
             [nodes |-> w.nodes, exc |-> "AttributeError"]
        ELSE [nodes |-> AppendChild(
                            Append(w.nodes,
                                   NewNode(module_path[Len(module_path)], play_class)),
                            w.category, leaf),
              exc |-> "none"]

(* ---------------------------- delete ----------------------------------- *)

\* the child list of c without its element at position idx
RemoveAt(ch, idx) == SubSeq(ch, 1, idx - 1) \o SubSeq(ch, idx + 1, Len(ch))

\* the body of Category.__del__(self, name): remove the first child with
\* that name, KeyError when there is none.  __del__ is the finalizer hook;
\* the body runs only when it is called as c.__del__(name)
CategoryDel(ns, c, name) ==
    LET ch == ns[c].children
        hits == {i \in 1..Len(ch) : NameOf(ns, ch[i]) = name}
    IN  IF hits = {} THEN [nodes |-> ns, exc |-> "KeyError"]
        ELSE [nodes |-> [ns EXCEPT ![c].children =
                            RemoveAt(@, CHOOSE i \in hits : \A j \in hits : i <= j)],
              exc |-> "none"]

\* the removal of CategoryDel without its `return`: the first child of that
\* name is removed and the KeyError that ends the method is raised all the same
DelItemThenRaise(ns, obj, name) ==
    IF IsCategory(ns, obj)
    THEN [nodes |-> CategoryDel(ns, obj, name).nodes, exc |-> "KeyError"]
    ELSE [nodes |-> ns, exc |-> "TypeError"]

\* the statement `del obj[name]`: it dispatches to __delitem__, which neither
\* Category, Node nor NoneType defines, so it raises TypeError ("object does
\* not support item deletion") and removes nothing
DelItem(ns, obj, name) == [nodes |-> ns, exc |-> "TypeError"]

\* the first for loop of delete: catStack.append(catStack[-1][module]).
\* Subscripting None or a Node raises TypeError ("not subscriptable")
RECURSIVE DeleteWalk(_, _, _)
DeleteWalk(ns, catStack, modules) ==
    IF modules = <<>> THEN [catStack |-> catStack, exc |-> "none"]
    ELSE IF ~IsCategory(ns, catStack[Len(catStack)])
    THEN [catStack |-> catStack, exc |-> "TypeError"]
    ELSE DeleteWalk(ns,
                    Append(catStack,
                           GetItem(ns, catStack[Len(catStack)], Head(modules))),
                    Tail(modules))

\* list.reverse()
Reverse(s) == [i \in 1..Len(s) |-> s[Len(s) + 1 - i]]

\* the second for loop of delete, over enumerate(catStack[:-1]) of the
\* reversed stack, from position idx (0-based) on:
\*   if len(category.children) == 0: del catStack[idx+1][module_path[-2 - idx]]
RECURSIVE PruneLoop(_, _, _, _)
PruneLoop(ns, catStack, module_path, idx) ==
    IF idx >= Len(catStack) - 1 THEN [nodes |-> ns, exc |-> "none"]
    ELSE IF ~IsCategory(ns, catStack[idx + 1])
    THEN \* None and Node have no attribute 'children'
         [nodes |-> ns, exc |-> "AttributeError"]
    ELSE IF Len(ns[catStack[idx + 1]].children) = 0
    THEN LET d == DelItem(ns, catStack[idx + 2],
                          module_path[Len(module_path) - 1 - idx])
         IN  IF d.exc # "none" THEN d
             ELSE PruneLoop(d.nodes, catStack, module_path, idx + 1)
    ELSE PruneLoop(ns, catStack, module_path, idx + 1)

\* the try block of delete
DeleteTry(ns, module_path, play_class) ==
    LET w == DeleteWalk(ns, <<Root>>, AllButLast(module_path))
    IN  IF w.exc # "none" THEN [nodes |-> ns, exc |-> w.exc]
        ELSE LET d == DelItem(ns, w.catStack[Len(w.catStack)],
                              ClassName(play_class))
             IN  IF d.exc # "none" THEN d
                 ELSE PruneLoop(d.nodes, Reverse(w.catStack), module_path, 0)

\* PlayRegistry.delete: `except KeyError` re-raises a KeyError ("Unable to
\* find the specified play"); every other exception propagates as it is
DeleteOp(ns, module_path, play_class) ==
    LET r == DeleteTry(ns, module_path, play_class)
    IN  IF r.exc = "KeyError" THEN [nodes |-> r.nodes, exc |-> "KeyError"]
        ELSE r

(* ---------------------------- iteration -------------------------------- *)

\* `category.children()` in _recursive_iter: children is a property that
\* returns the list, and calling a list raises TypeError ("'list' object is
\* not callable"), also when the list is empty
CallChildren(ns, category) == [out |-> <<>>, exc |-> "TypeError"]

\* _recursive_iter(category): the Nodes the generator yields, in order, and
\* the exception that ends it ("none" when it is exhausted normally)
RECURSIVE RecursiveIter(_, _)
RECURSIVE IterChildren(_, _, _)
RecursiveIter(ns, category) ==
    LET c == CallChildren(ns, category)
    IN  IF c.exc # "none" THEN [out |-> <<>>, exc |-> c.exc]
        ELSE IterChildren(ns, c.out, 1)

\* the for loop of _recursive_iter from the i-th child on
IterChildren(ns, children, i) ==
    IF i > Len(children) THEN [out |-> <<>>, exc |-> "none"]
    ELSE LET child == children[i]
             here == IF IsNode(ns, child)
                     THEN [out |-> <<child>>, exc |-> "none"]
                     ELSE RecursiveIter(ns, child)
         IN  IF here.exc # "none" THEN here
             ELSE LET rest == IterChildren(ns, children, i + 1)
                  IN  [out |-> here.out \o rest.out, exc |-> rest.exc]

\* PlayRegistry.__iter__, run to its end (list(registry))
IterOp(ns) == RecursiveIter(ns, Root)

\* PlayRegistry.__contains__: True at the first yielded Node with that play
\* class; otherwise the generator's exception, or False when it is exhausted
ContainsOp(ns, play_class) ==
    LET it == IterOp(ns)
    IN  IF \E i \in 1..Len(it.out) : ns[it.out[i]].play_class = play_class
        THEN [ret |-> "True", exc |-> "none"]
        ELSE IF it.exc # "none" THEN [ret |-> "raised", exc |-> it.exc]
        ELSE [ret |-> "False", exc |-> "none"]

\* the `if node.enabled` filter of the list comprehension, in order
RECURSIVE EnabledOnly(_, _)
EnabledOnly(ns, s) ==
    IF s = <<>> THEN <<>>
    ELSE (IF ns[Head(s)].enabled THEN <<Head(s)>> ELSE <<>>)
         \o EnabledOnly(ns, Tail(s))

\* PlayRegistry.get_enabled_plays: [node.play_class for node in self if node.enabled]
GetEnabledPlaysOp(ns) ==
    LET it == IterOp(ns)
        kept == EnabledOnly(ns, it.out)
    IN  IF it.exc # "none" THEN [plays |-> <<>>, exc |-> it.exc]
        ELSE [plays |-> [i \in 1..Len(kept) |-> ns[kept[i]].play_class],
              exc |-> "none"]

(* ---------------------------- setData ----------------------------------- *)

\* a QModelIndex is its internalPointer; the invalid index QModelIndex()
InvalidIndex == 0

Roles == {"CheckStateRole", "DisplayRole"}

\* the value argument of setData (Qt.Unchecked, Qt.Checked)
CheckValues == {0, 2}

\* self.dataChanged.emit(topLeft, bottomRight): the signal calls its slots
\* at once, so a slot that reads the node's flag sees the value the flag has
\* when emit is called (seen)
DataChanged(topLeft, bottomRight, seen) ==
    [topLeft |-> topLeft, bottomRight |-> bottomRight, seen |-> seen]

\* setData that flips the flag of every Node of the arena
SetDataOpFlipsAll(ns, index, value, role) ==
    IF role = "CheckStateRole" /\ index # InvalidIndex
    THEN IF ~IsNode(ns, index)
         THEN [nodes |-> ns, exc |-> "AssertionError", ret |-> "raised",
               emitted |-> <<>>]
         ELSE [nodes |-> [n \in 1..Len(ns) |->
                            IF ns[n].kind = "Node"
                            THEN [ns[n] EXCEPT !.enabled = ~@] ELSE ns[n]],
               exc |-> "none", ret |-> "True",
               emitted |-> <<DataChanged(index, index, ~ns[index].enabled)>>]
    ELSE [nodes |-> ns, exc |-> "none", ret |-> "False", emitted |-> <<>>]

\* setData that emits dataChanged before it flips the flag
SetDataOpEmitsFirst(ns, index, value, role) ==
    IF role = "CheckStateRole" /\ index # InvalidIndex
    THEN IF ~IsNode(ns, index)
         THEN [nodes |-> ns, exc |-> "AssertionError", ret |-> "raised",
               emitted |-> <<>>]
         ELSE [nodes |-> [ns EXCEPT ![index].enabled = ~@], exc |-> "none",
               ret |-> "True",
               emitted |-> <<DataChanged(index, index, ns[index].enabled)>>]
    ELSE [nodes |-> ns, exc |-> "none", ret |-> "False", emitted |-> <<>>]

\* setData that stores the value handed in (checked or not) instead of
\* flipping the flag
SetDataOpStoresValue(ns, index, value, role) ==
    IF role = "CheckStateRole" /\ index # InvalidIndex
    THEN IF ~IsNode(ns, index)
         THEN [nodes |-> ns, exc |-> "AssertionError", ret |-> "raised",
               emitted |-> <<>>]
         ELSE [nodes |-> [ns EXCEPT ![index].enabled = (value = 2)],
               exc |-> "none", ret |-> "True", emitted |-> <<DataChanged(index, index, (value = 2))>>]
    ELSE [nodes |-> ns, exc |-> "none", ret |-> "False", emitted |-> <<>>]

\* PlayRegistry.setData: flip the enabled flag of the Node the index points
\* to, emit dataChanged(index, index) and return True
SetDataOp(ns, index, value, role) ==
    IF role = "CheckStateRole" /\ index # InvalidIndex
    THEN IF ~IsNode(ns, index)
         THEN [nodes |-> ns, exc |-> "AssertionError", ret |-> "raised",
               emitted |-> <<>>]
         ELSE [nodes |-> [ns EXCEPT ![index].enabled = ~@], exc |-> "none",
               ret |-> "True",
               emitted |-> <<DataChanged(index, index, ~ns[index].enabled)>>]
    ELSE [nodes |-> ns, exc |-> "none", ret |-> "False", emitted |-> <<>>]

(* ---------------------------- the view's navigation -------------------- *)

\* a QModelIndex as the view holds it: its row, its column and its
\* internalPointer; QModelIndex() is the invalid index
InvalidModelIndex == [valid |-> FALSE, row |-> -1, column |-> -1, ptr |-> None]

\* QAbstractItemModel.createIndex(row, column, ptr): a valid index
CreateIndex(row, column, ptr) ==
    [valid |-> TRUE, row |-> row, column |-> column, ptr |-> ptr]

\* list.index(obj): the 0-based position of the first element that is obj
\* (the classes define no __eq__), ValueError when there is none
ListIndex(list, obj) ==
    LET hits == {i \in 1..Len(list) : list[i] = obj}
    IN  IF hits = {} THEN [val |-> -1, exc |-> "ValueError"]
        ELSE [val |-> (CHOOSE i \in hits : \A j \in hits : i <= j) - 1,
              exc |-> "none"]

\* the Category.row property
CategoryRow(ns, c) ==
    IF ns[c].parent # None
    THEN ListIndex(ns[ns[c].parent].children, c)
    ELSE [val |-> 0, exc |-> "none"]

\* what a navigation call gives back: the exception it raised, or the index
\* or the count it returned (isNone: it returned None)
NavResult(exc, index, count, isNone) ==
    [exc |-> exc, index |-> index, count |-> count, isNone |-> isNone]

\* PlayRegistry.rowCount
RowCountOp(ns, parent) ==
    IF ~parent.valid
    THEN NavResult("none", InvalidModelIndex, Len(ns[Root].children), FALSE)
    ELSE IF IsNode(ns, parent.ptr)
    THEN NavResult("none", InvalidModelIndex, 0, FALSE)
    ELSE IF parent.ptr = None
    THEN \* None has no attribute 'children'
         NavResult("AttributeError", InvalidModelIndex, 0, FALSE)
    ELSE NavResult("none", InvalidModelIndex, Len(ns[parent.ptr].children), FALSE)

\* parent() that takes the row of the node itself for the row of its parent
ParentOpOwnRow(ns, index) ==
    IF ~index.valid
    THEN NavResult("NameError", InvalidModelIndex, 0, FALSE)
    ELSE IF index.ptr = None
    THEN NavResult("none", InvalidModelIndex, 0, TRUE)
    ELSE NavResult("none", CreateIndex(index.row, 0, ns[index.ptr].parent),
                   0, FALSE)

\* PlayRegistry.parent.  The name QModelIndex is not defined in the module
\* (only QtCore and QtGui are imported), so the branch for an invalid index
\* raises NameError
ParentOp(ns, index) ==
    IF ~index.valid
    THEN NavResult("NameError", InvalidModelIndex, 0, FALSE)
    ELSE IF index.ptr = None
    THEN NavResult("none", InvalidModelIndex, 0, TRUE)
    ELSE IF ns[index.ptr].parent = None
    THEN NavResult("none", CreateIndex(0, 0, ns[index.ptr].parent), 0, FALSE)
    ELSE LET parentRow == CategoryRow(ns, ns[index.ptr].parent)
         IN  IF parentRow.exc # "none"
             THEN NavResult(parentRow.exc, InvalidModelIndex, 0, FALSE)
             ELSE NavResult("none",
                            CreateIndex(parentRow.val, 0, ns[index.ptr].parent),
                            0, FALSE)

\* children[row] for a row >= 0: IndexError past the end of the list
ListGet(list, row) ==
    IF row < Len(list) THEN [val |-> list[row + 1], exc |-> "none"]
    ELSE [val |-> None, exc |-> "IndexError"]

\* PlayRegistry.index
IndexOp(ns, row, column, parent) ==
    LET parentNode == IF ~parent.valid THEN Root ELSE parent.ptr
    IN  IF ~IsCategory(ns, parentNode)
        THEN \* None and Node have no attribute 'children'
             NavResult("AttributeError", InvalidModelIndex, 0, FALSE)
        ELSE LET child == ListGet(ns[parentNode].children, row)
             IN  IF child.exc # "none"
                 THEN NavResult(child.exc, InvalidModelIndex, 0, FALSE)
                 ELSE NavResult("none", CreateIndex(row, column, child.val),
                                0, FALSE)

\* the index the model hands out for the object n: index() makes it for a
\* child of a category, parent() for a category
IndexOf(ns, n) ==
    CreateIndex(IF ns[n].parent = None THEN 0
                ELSE ListIndex(ns[ns[n].parent].children, n).val, 0, n)

\* the indexes a view can hold: the invalid one, one per object, and the one
\* parent() makes for the parent of the root
ViewIndexes(ns) ==
    {InvalidModelIndex, CreateIndex(0, 0, None)}
    \cup {IndexOf(ns, n) : n \in 1..Len(ns)}

(* ---------------------------- state ------------------------------------ *)

\* the record of the call made last: its arguments and its outcome
CallRecord(op, path, play, index, role, exc, ret, out, plays, emitted) ==
    [op |-> op, path |-> path, play |-> play, index |-> index, role |-> role,
     exc |-> exc, ret |-> ret, out |-> out, plays |-> plays,
     emitted |-> emitted]

\* PlayRegistry.__init__
Init ==
    /\ nodes = <<NewCategory(None, "")>>
    /\ last = CallRecord("init", <<>>, NoPlay, InvalidIndex, "", "none", "None",
                         <<>>, <<>>, <<>>)
    /\ pre = nodes

\* registry.insert(module_path, play_class)
Insert(module_path, play_class) ==
    /\ Len(nodes) < MaxNodes
    /\ LET r == InsertOp(nodes, module_path, play_class)
       IN  /\ nodes' = r.nodes
           /\ last' = CallRecord("insert", module_path, play_class,
                                 InvalidIndex, "", r.exc,
                                 IF r.exc = "none" THEN "None" ELSE "raised",
                                 <<>>, <<>>, <<>>)
    /\ pre' = nodes

\* registry.delete(module_path, play_class)
Delete(module_path, play_class) ==
    /\ LET r == DeleteOp(nodes, module_path, play_class)
       IN  /\ nodes' = r.nodes
           /\ last' = CallRecord("delete", module_path, play_class,
                                 InvalidIndex, "", r.exc,
                                 IF r.exc = "none" THEN "None" ELSE "raised",
                                 <<>>, <<>>, <<>>)
    /\ pre' = nodes

\* list(registry)
Iterate ==
    /\ LET r == IterOp(nodes)
       IN  last' = CallRecord("iter", <<>>, NoPlay, InvalidIndex, "", r.exc,
                              IF r.exc = "none" THEN "list" ELSE "raised",
                              r.out, <<>>, <<>>)
    /\ nodes' = nodes
    /\ pre' = nodes

\* play_class in registry
Contains(play_class) ==
    /\ LET r == ContainsOp(nodes, play_class)
       IN  last' = CallRecord("contains", <<>>, play_class, InvalidIndex, "",
                              r.exc, r.ret, <<>>, <<>>, <<>>)
    /\ nodes' = nodes
    /\ pre' = nodes

\* registry.get_enabled_plays()
GetEnabledPlays ==
    /\ LET r == GetEnabledPlaysOp(nodes)
       IN  last' = CallRecord("get_enabled_plays", <<>>, NoPlay, InvalidIndex,
                              "", r.exc,
                              IF r.exc = "none" THEN "list" ELSE "raised",
                              <<>>, r.plays, <<>>)
    /\ nodes' = nodes
    /\ pre' = nodes

\* registry.setData(index, value, role), the view's checkbox edit
SetData(index, value, role) ==
    /\ LET r == SetDataOp(nodes, index, value, role)
       IN  /\ nodes' = r.nodes
           /\ last' = CallRecord("setData", <<>>, NoPlay, index, role, r.exc,
                                 r.ret, <<>>, <<>>, r.emitted)
    /\ pre' = nodes

Next ==
    \/ \E f \in FolderPaths, x \in PlayClasses : Insert(ModulePath(f, x), x)
    \/ \E f \in FolderPaths, x \in PlayClasses : Delete(ModulePath(f, x), x)
    \/ Iterate
    \/ \E x \in PlayClasses : Contains(x)
    \/ GetEnabledPlays
    \/ \E index \in {InvalidIndex} \cup (1..Len(nodes)), value \in CheckValues,
          role \in Roles : SetData(index, value, role)

Spec == Init /\ [][Next]_vars

\* the record of a navigation call made last: the index (and row) it was
\* given and what it gave back
ViewCallRecord(op, arg, row, result) ==
    [op |-> op, path |-> <<>>, play |-> NoPlay, index |-> InvalidIndex,
     role |-> "", exc |-> result.exc,
     ret |-> IF result.exc # "none" THEN "raised" ELSE "value",
     out |-> <<>>, plays |-> <<>>, emitted |-> <<>>,
     arg |-> arg, row |-> row, result |-> result]

\* registry.rowCount(parent)
RowCount(parent) ==
    /\ last' = ViewCallRecord("rowCount", parent, 0, RowCountOp(nodes, parent))
    /\ nodes' = nodes
    /\ pre' = nodes

\* registry.parent(index)
Parent(index) ==
    /\ last' = ViewCallRecord("parent", index, 0, ParentOp(nodes, index))
    /\ nodes' = nodes
    /\ pre' = nodes

\* registry.index(row, column, parent), for a row below rowCount(parent)
Index(row, column, parent) ==
    /\ RowCountOp(nodes, parent).exc = "none"
    /\ row < RowCountOp(nodes, parent).count
    /\ last' = ViewCallRecord("index", parent, row,
                              IndexOp(nodes, row, column, parent))
    /\ nodes' = nodes
    /\ pre' = nodes

\* the registry as the tree view walks it: the loader's insert and delete
\* shape the tree, the view's navigation calls read it (none of them reads
\* the enabled flag, so the checkbox edit is left to Spec)
NextView ==
    \/ \E f \in FolderPaths, x \in PlayClasses : Insert(ModulePath(f, x), x)
    \/ \E f \in FolderPaths, x \in PlayClasses : Delete(ModulePath(f, x), x)
    \/ \E parent \in ViewIndexes(nodes) : RowCount(parent)
    \/ \E index \in ViewIndexes(nodes) : Parent(index)
    \/ \E parent \in ViewIndexes(nodes), row \in 0..Len(nodes) :
          Index(row, 0, parent)

SpecView == Init /\ [][NextView]_vars

(* ------------------- vocabulary of the properties ---------------------- *)

\* the leaves below the objects of list, depth first in child order
RECURSIVE LeavesOfList(_, _)
LeavesOfList(ns, list) ==
    IF list = <<>> THEN <<>>
    ELSE (IF ns[Head(list)].kind = "Node" THEN <<Head(list)>>
          ELSE LeavesOfList(ns, ns[Head(list)].children))
         \o LeavesOfList(ns, Tail(list))

\* every leaf of the tree, depth first in child order
TreeLeaves(ns) == LeavesOfList(ns, ns[Root].children)

\* the objects of the tree: the root and everything below it
RECURSIVE Below(_, _)
Below(ns, n) ==
    {n} \cup (IF ns[n].kind = "Category"
              THEN UNION {Below(ns, ns[n].children[i]) : i \in 1..Len(ns[n].children)}
              ELSE {})

InTree(ns) == Below(ns, Root)

\* the leaves of the tree whose payload is play_class
LeavesWith(ns, play_class) ==
    {i \in 1..Len(TreeLeaves(ns)) : ns[TreeLeaves(ns)[i]].play_class = play_class}

\* the object reached from c by following the folder names, each to the
\* first child of that name; None when a name has no child or the walk
\* reaches a leaf before the names end
RECURSIVE Walk(_, _, _)
Walk(ns, c, folders) ==
    IF folders = <<>> THEN c
    ELSE IF ~IsCategory(ns, c) THEN None
    ELSE Walk(ns, GetItem(ns, c, Head(folders)), Tail(folders))

\* the category the folder part of module_path leads to, None when it leads
\* to no category
CategoryAt(ns, module_path) ==
    LET c == Walk(ns, Root, AllButLast(module_path))
    IN  IF IsCategory(ns, c) THEN c ELSE None

\* the position in c's child list of the first child named key, 0 if none
PosOf(ns, c, key) ==
    LET hits == {i \in 1..Len(ns[c].children) : NameOf(ns, ns[c].children[i]) = key}
    IN  IF hits = {} THEN 0 ELSE CHOOSE i \in hits : \A j \in hits : i <= j

\* the play class is registered exactly once, as the first child named like
\* it of the category module_path leads to
RegisteredAt(ns, module_path, play_class) ==
    LET c == CategoryAt(ns, module_path)
    IN  /\ c # None
        /\ PosOf(ns, c, ClassName(play_class)) # 0
        /\ LET n == ns[c].children[PosOf(ns, c, ClassName(play_class))]
           IN  IsNode(ns, n) /\ ns[n].play_class = play_class
        /\ Cardinality(LeavesWith(ns, play_class)) = 1

(* ---------------------------- properties ------------------------------- *)

\* C1: immediately after an insert(p, x) that returned, of a payload x that
\* was not yet registered, contains(x) returns True and the iteration yields
\* exactly one leaf whose payload is x.
C1_InsertThenContains ==
    (last.op = "insert" /\ last.exc = "none" /\ LeavesWith(pre, last.play) = {})
    => /\ ContainsOp(nodes, last.play) = [ret |-> "True", exc |-> "none"]
       /\ IterOp(nodes).exc = "none"
       /\ Cardinality({i \in 1..Len(IterOp(nodes).out) :
              nodes[IterOp(nodes).out[i]].play_class = last.play}) = 1

\* C2: after delete(p, key) of a play x registered at p, contains(x) returns
\* False and no category along p other than the root is left empty in the
\* tree (every category the removal empties is removed, transitively).
C2_DeleteRemovesAndPrunes ==
    (last.op = "delete" /\ RegisteredAt(pre, last.path, last.play))
    => /\ ContainsOp(nodes, last.play) = [ret |-> "False", exc |-> "none"]
       /\ \A k \in 1..(Len(last.path) - 1) :
             LET c == Walk(pre, Root, SubSeq(last.path, 1, k))
             IN  c \in InTree(nodes) => nodes[c].children # <<>>

\* C3: a delete whose folder names do not all name a child, or whose last
\* category has no child named like the key, fails with KeyError and with
\* no other kind of error, and never returns normally.
C3_DeleteNotFoundIsKeyError ==
    (/\ last.op = "delete"
     /\ \/ CategoryAt(pre, last.path) = None
        \/ PosOf(pre, CategoryAt(pre, last.path), ClassName(last.play)) = 0)
    => last.exc = "KeyError"

\* C4: a delete call that fails leaves the whole arena - every child list,
\* every parent reference, every enabled flag - as it was before the call.
C4_FailedDeleteChangesNothing ==
    (last.op = "delete" /\ last.exc # "none") => nodes = pre

\* a delete of a play that is registered at its path has failed
C4_Witness ==
    /\ last.op = "delete"
    /\ last.exc # "none"
    /\ RegisteredAt(pre, last.path, last.play)
    /\ Len(last.path) > 1

\* C5: as long as no leaf shares its display name with a sibling, no
\* category has two children with equal name: insert makes a sub-category
\* for a folder only where there is none of that name, so two inserts with a
\* common folder prefix share one category per folder.
C5_SiblingNamesUnique ==
    (\A c \in InTree(nodes) : IsCategory(nodes, c) =>
        \A i, j \in 1..Len(nodes[c].children) :
            (i # j /\ IsNode(nodes, nodes[c].children[i]))
            => NameOf(nodes, nodes[c].children[i]) # NameOf(nodes, nodes[c].children[j]))
    => (\A c \in InTree(nodes) : IsCategory(nodes, c) =>
          \A i, j \in 1..Len(nodes[c].children) :
              i # j => NameOf(nodes, nodes[c].children[i])
                       # NameOf(nodes, nodes[c].children[j]))

C7_EnabledPlaysAreTheEnabledLeaves ==
    (last.op = "get_enabled_plays" /\ TreeLeaves(nodes) # <<>>)
    => /\ last.exc = "none"
       /\ LET kept == EnabledOnly(nodes, TreeLeaves(nodes))
          IN  last.plays = [i \in 1..Len(kept) |-> nodes[kept[i]].play_class]

\* C8: the iteration over a tree that holds a leaf yields every leaf exactly
\* once, depth first in child order, yields no category, and leaves the tree
\* as it was.
C8_IterationYieldsEveryLeaf ==
    (last.op = "iter" /\ TreeLeaves(nodes) # <<>>)
    => /\ last.exc = "none"
       /\ last.out = TreeLeaves(nodes)
       /\ nodes = pre

\* C9: a toggle (setData with the check-state role) of a leaf reports
\* success, and a second toggle of the same leaf, with whatever value,
\* reports success and puts the enabled flag - and with it the whole arena -
\* back to what it was; a toggle of a category raises AssertionError and
\* changes nothing.
C9_ToggleTwiceRestores ==
    /\ (last.op = "setData" /\ last.role = "CheckStateRole" /\ IsNode(pre, last.index))
       => /\ last.exc = "none" /\ last.ret = "True"
          /\ nodes[last.index].enabled = ~pre[last.index].enabled
          /\ \A v \in CheckValues :
                LET again == SetDataOp(nodes, last.index, v, last.role)
                IN  /\ again.exc = "none" /\ again.ret = "True"
                    /\ again.nodes[last.index].enabled = pre[last.index].enabled
                    /\ again.nodes = pre
    /\ (last.op = "setData" /\ last.role = "CheckStateRole"
        /\ IsCategory(pre, last.index))
       => last.exc = "AssertionError" /\ nodes = pre
    /\ \A c \in InTree(nodes), v \in CheckValues :
          IsCategory(nodes, c)
          => LET r == SetDataOp(nodes, c, v, "CheckStateRole")
             IN  r.exc = "AssertionError" /\ r.nodes = nodes

\* a leaf has just been toggled, in a tree that also holds a category below
\* the root
C9_Witness ==
    /\ last.op = "setData"
    /\ last.role = "CheckStateRole"
    /\ IsNode(pre, last.index)
    /\ last.ret = "True"
    /\ nodes[last.index].enabled # pre[last.index].enabled
    /\ \E c \in InTree(nodes) : c # Root /\ IsCategory(nodes, c)

\* C10: insert never raises.
C10_InsertNeverRaises ==
    last.op = "insert" => last.exc = "none"

\* C11: the root is the Category made by the constructor: it has the empty
\* name and no parent, it is in no child list, and no call removes or
\* replaces it.
C11_RootIsPermanent ==
    /\ Len(nodes) >= Root
    /\ nodes[Root] = [pre[Root] EXCEPT !.children = nodes[Root].children]
    /\ nodes[Root].kind = "Category"
    /\ nodes[Root].name = ""
    /\ nodes[Root].parent = None
    /\ \A c \in 1..Len(nodes) : IsCategory(nodes, c) =>
          \A i \in 1..Len(nodes[c].children) : nodes[c].children[i] # Root

\* delete has been called for the only child of the root, a leaf
C11_Witness ==
    /\ last.op = "delete"
    /\ Len(last.path) = 1
    /\ RegisteredAt(pre, last.path, last.play)
    /\ Len(pre[Root].children) = 1
    /\ nodes[Root].parent = None

\* C12: a leaf is enabled when insert creates it, and its flag changes only
\* in a setData call with the check-state role on that very leaf: every other
\* call, and a toggle of another leaf, leaves it as it was.
C12_EnabledChangesOnlyByOwnToggle ==
    /\ \A n \in 1..Len(pre) :
          (IsNode(pre, n) /\ nodes[n].enabled # pre[n].enabled)
          => /\ last.op = "setData"
             /\ last.role = "CheckStateRole"
             /\ last.index = n
    /\ \A n \in (Len(pre) + 1)..Len(nodes) :
          IsNode(nodes, n) => last.op = "insert" /\ nodes[n].enabled

\* a leaf has just been toggled beside another leaf, which kept its flag
C12_Witness ==
    /\ last.op = "setData"
    /\ IsNode(pre, last.index)
    /\ nodes[last.index].enabled # pre[last.index].enabled
    /\ \E n \in 1..Len(pre) :
          n # last.index /\ IsNode(pre, n) /\ nodes[n].enabled = pre[n].enabled

\* C13: a setData call that returns True has emitted exactly one
\* dataChanged, from and to the index of the toggled leaf, when the flag
\* already had its new value; a call that raises or returns False has
\* emitted none.
C13_OneNotificationPerToggle ==
    last.op = "setData"
    => IF last.ret = "True"
       THEN /\ IsNode(pre, last.index)
            /\ nodes[last.index].enabled # pre[last.index].enabled
            /\ last.emitted = <<DataChanged(last.index, last.index,
                                            nodes[last.index].enabled)>>
       ELSE last.emitted = <<>> /\ nodes = pre

\* a disabled leaf has just been enabled again and the view was notified
C13_Witness ==
    /\ last.op = "setData"
    /\ last.ret = "True"
    /\ Len(last.emitted) = 1
    /\ nodes[last.index].enabled
    /\ ~pre[last.index].enabled

\* C18: every child of a category has that category as its parent, and every
\* object other than the root is in exactly one child list, exactly once.
C18_ParentsAgreeWithChildren ==
    /\ \A c \in 1..Len(nodes) : IsCategory(nodes, c) =>
          \A i \in 1..Len(nodes[c].children) :
              nodes[nodes[c].children[i]].parent = c
    /\ \A n \in 2..Len(nodes) :
          Cardinality({ci \in (1..Len(nodes)) \X (1..Len(nodes)) :
              /\ IsCategory(nodes, ci[1])
              /\ ci[2] <= Len(nodes[ci[1]].children)
              /\ nodes[ci[1]].children[ci[2]] = n}) = 1

\* insert has put a leaf into a category below the root
C18_Witness ==
    /\ last.op = "insert"
    /\ last.exc = "none"
    /\ \E n \in 1..Len(nodes) :
          /\ IsNode(nodes, n)
          /\ nodes[n].parent # Root
          /\ IsCategory(nodes, nodes[n].parent)
          /\ nodes[nodes[n].parent].parent = Root

\* the leaves of the tree
LeafSet(ns) == {n \in InTree(ns) : ns[n].kind = "Node"}

\* the categories below the root that have no child
EmptyCategories(ns) ==
    {c \in InTree(ns) : c # Root /\ IsCategory(ns, c) /\ ns[c].children = <<>>}

\* C15: an insert or delete that completes on a tree without an empty
\* category below the root leaves no empty category below the root.
C15_NoEmptyCategoryLeft ==
    (/\ last.op \in {"insert", "delete"}
     /\ last.exc = "none"
     /\ EmptyCategories(pre) = {})
    => EmptyCategories(nodes) = {}

C17_InsertThenDeleteRestores ==
    (/\ last.op = "insert"
     /\ last.exc = "none"
     /\ \/ CategoryAt(pre, last.path) = None
        \/ PosOf(pre, CategoryAt(pre, last.path), ClassName(last.play)) = 0)
    => LET d == DeleteOp(nodes, last.path, last.play)
       IN  /\ d.exc = "none"
           /\ InTree(d.nodes) = InTree(pre)
           /\ \A n \in InTree(pre) : d.nodes[n] = pre[n]

\* the 0-based position of the object n in the child list of its parent
RowIn(ns, n) ==
    (CHOOSE i \in 1..Len(ns[ns[n].parent].children) :
        ns[ns[n].parent].children[i] = n) - 1

\* C14: rowCount is the number of children for a category (the root's for
\* the invalid index) and 0 for a leaf; the child that index() gives for row
\* r of a category c is c's r-th child, parent() of it points to c, and the
\* row of that parent index is c's position in the child list of its own
\* parent; for the root, parent() points to no parent (None), at row 0.
C14_NavigationConsistent ==
    /\ RowCountOp(nodes, InvalidModelIndex)
          = NavResult("none", InvalidModelIndex, Len(nodes[Root].children), FALSE)
    /\ \A n \in InTree(nodes) :
          RowCountOp(nodes, IndexOf(nodes, n))
             = NavResult("none", InvalidModelIndex,
                         IF IsCategory(nodes, n) THEN Len(nodes[n].children) ELSE 0,
                         FALSE)
    /\ \A c \in InTree(nodes) : IsCategory(nodes, c) =>
          \A r \in 0..(RowCountOp(nodes, IndexOf(nodes, c)).count - 1) :
              \A from \in {IndexOf(nodes, c)}
                          \cup (IF c = Root THEN {InvalidModelIndex} ELSE {}) :
                  LET child == IndexOp(nodes, r, 0, from)
                      up == ParentOp(nodes, child.index)
                  IN  /\ child.exc = "none"
                      /\ child.index = CreateIndex(r, 0, nodes[c].children[r + 1])
                      /\ up.exc = "none" /\ ~up.isNone
                      /\ up.index.valid
                      /\ up.index.ptr = c
                      /\ up.index.column = 0
                      /\ up.index.row = IF c = Root THEN 0 ELSE RowIn(nodes, c)
    /\ ParentOp(nodes, IndexOf(nodes, Root))
          = NavResult("none", CreateIndex(0, 0, None), 0, FALSE)
    /\ CategoryRow(nodes, Root) = [val |-> 0, exc |-> "none"]
    /\ (last.op = "parent" /\ last.arg.valid /\ last.arg.ptr # None)
       => /\ last.exc = "none"
          /\ last.result.index.ptr = nodes[last.arg.ptr].parent
          /\ last.result.index.row
                = IF last.result.index.ptr \in {None, Root} THEN 0
                  ELSE RowIn(nodes, last.result.index.ptr)

\* the view has asked for the parent of a leaf whose category is the second
\* child of the root
C14_Witness ==
    /\ last.op = "parent"
    /\ last.exc = "none"
    /\ IsNode(nodes, last.arg.ptr)
    /\ last.result.index.ptr # Root
    /\ IsCategory(nodes, last.result.index.ptr)
    /\ last.result.index.row = 1

====
